---- MODULE Spec2Model ----
(***************************************************************************)
(* Model of the rule-based transcript editor (src/src/editor.py).          *)
(*                                                                         *)
(* A Python str is a sequence of one-character strings; a Python dict is   *)
(* a sequence of [k, v] records with pairwise distinct keys, in insertion  *)
(* order (the order sorted() is stable on).  Confidences are hundredths.   *)
(* The character U+2026 of END_PUNCT is written "ELLIPSIS".                *)
(***************************************************************************)
EXTENDS Integers, Sequences, FiniteSets, TLC

VARIABLES pc, text, alias_map, error_map, r1, r2, ctx, min_conf, built, obj, out, out2

vars == <<pc, text, alias_map, error_map, r1, r2, ctx, min_conf, built, obj, out, out2>>

(***************************************************************************)
(* Characters                                                              *)
(***************************************************************************)
LowerLetters == {"a", "b", "e", "n", "o"}

UpperLetters == {"A", "B", "E", "N", "O"}

Digits == {"5"}

Whitespace == {" ", "\t"}

END_PUNCT == {".", "!", "?", "ELLIPSIS", ":"}

\* str.isalpha() on one character
isalpha(c) == c \in LowerLetters \cup UpperLetters

\* the regex class \w
IsWordChar(c) == c \in LowerLetters \cup UpperLetters \cup Digits \cup {"_"}

\* the regex class \s, also what str.strip() removes
IsSpace(c) == c \in Whitespace

\* str.lower() on one character
lower(c) ==
    CASE c = "A" -> "a" [] c = "B" -> "b" [] c = "E" -> "e"
      [] c = "N" -> "n" [] c = "O" -> "o" [] OTHER -> c

\* str.upper() on one character
upper(c) ==
    CASE c = "a" -> "A" [] c = "b" -> "B" [] c = "e" -> "E"
      [] c = "n" -> "N" [] c = "o" -> "O" [] OTHER -> c

LowerStr(s) == [i \in 1..Len(s) |-> lower(s[i])]

\* s[a..b], empty when a > b
Slice(s, a, b) == IF a > b THEN <<>> ELSE SubSeq(s, a, b)

\* str.strip(): drop leading and trailing whitespace
strip(s) ==
    LET keep == {i \in 1..Len(s) : ~IsSpace(s[i])}
    IN  IF keep = {} THEN <<>>
        ELSE LET lo == CHOOSE i \in keep : \A j \in keep : i <= j
                 hi == CHOOSE i \in keep : \A j \in keep : j <= i
             IN  SubSeq(s, lo, hi)

\* re.sub(r"\s+", " ", s): every maximal whitespace run becomes one space
RECURSIVE CollapseSpaces(_, _)
CollapseSpaces(s, i) ==
    IF i > Len(s) THEN <<>>
    ELSE IF IsSpace(s[i])
         THEN IF i > 1 /\ IsSpace(s[i - 1])
              THEN CollapseSpaces(s, i + 1)
              ELSE <<" ">> \o CollapseSpaces(s, i + 1)
         ELSE <<s[i]>> \o CollapseSpaces(s, i + 1)

\* _norm: lowercase, collapse whitespace, strip
_norm(s) == strip(CollapseSpaces(LowerStr(s), 1))

(***************************************************************************)
(* Regular-expression matching as used by apply_fixes                      *)
(***************************************************************************)
\* \b at offset i of s (between s[i] and s[i+1]; 0 and Len(s) are the ends)
WordBoundary(s, i) ==
    LET left  == i >= 1 /\ i <= Len(s) /\ IsWordChar(s[i])
        right == i + 1 >= 1 /\ i + 1 <= Len(s) /\ IsWordChar(s[i + 1])
    IN  left # right

\* the pattern without its two \b
PatternMatchAt_NoBoundary(key, s, i) ==
    /\ i >= 1
    /\ i + Len(key) - 1 <= Len(s)
    /\ \A j \in 1..Len(key) : lower(s[i + j - 1]) = lower(key[j])

\* (?i)\b<re.escape(key)>\b matches s at index i
PatternMatchAt(key, s, i) ==
    /\ i >= 1
    /\ i + Len(key) - 1 <= Len(s)
    /\ \A j \in 1..Len(key) : lower(s[i + j - 1]) = lower(key[j])
    /\ WordBoundary(s, i - 1)
    /\ WordBoundary(s, i + Len(key) - 1)

\* pattern.search(result)
PatternSearch(key, s) == \E i \in 1..Len(s) : PatternMatchAt(key, s, i)

\* pattern.sub(repl, s): leftmost non-overlapping matches, left to right
RECURSIVE PatternSubFrom(_, _, _, _)
PatternSubFrom(key, repl, s, i) ==
    IF i > Len(s) THEN <<>>
    ELSE IF PatternMatchAt(key, s, i)
         THEN repl \o PatternSubFrom(key, repl, s, i + Len(key))
         ELSE <<s[i]>> \o PatternSubFrom(key, repl, s, i + 1)

PatternSub(key, repl, s) == PatternSubFrom(key, repl, s, 1)

\* end index of the maximal run of word characters starting at i
RECURSIVE WordEnd(_, _)
WordEnd(s, i) ==
    IF i < Len(s) /\ IsWordChar(s[i + 1]) THEN WordEnd(s, i + 1) ELSE i

\* end index of the maximal run of whitespace starting at i
RECURSIVE SpaceEnd(_, _)
SpaceEnd(s, i) ==
    IF i < Len(s) /\ IsSpace(s[i + 1]) THEN SpaceEnd(s, i + 1) ELSE i

\* \b(\w+)\s+\1\b with IGNORECASE matches s at index i; 0 when it does not,
\* else the index of the last matched character.  Group 1 is the whole word
\* at i: a shorter group would have to be followed by whitespace.
DedupMatchEnd(s, i) ==
    IF ~(i >= 1 /\ i <= Len(s) /\ IsWordChar(s[i]) /\ WordBoundary(s, i - 1))
    THEN 0
    ELSE LET e1 == WordEnd(s, i)
             n  == e1 - i + 1
         IN  IF ~(e1 < Len(s) /\ IsSpace(s[e1 + 1])) THEN 0
             ELSE LET w2 == SpaceEnd(s, e1 + 1) + 1
                  IN  IF /\ w2 + n - 1 <= Len(s)
                         /\ \A j \in 0..(n - 1) : lower(s[w2 + j]) = lower(s[i + j])
                         /\ WordBoundary(s, w2 + n - 1)
                      THEN w2 + n - 1
                      ELSE 0

\* re.sub(r"\b(\w+)\s+\1\b", r"\1", s, flags=re.IGNORECASE)
RECURSIVE DedupSubFrom(_, _)
DedupSubFrom(s, i) ==
    IF i > Len(s) THEN <<>>
    ELSE LET e == DedupMatchEnd(s, i)
         IN  IF e > 0
             THEN SubSeq(s, i, WordEnd(s, i)) \o DedupSubFrom(s, e + 1)
             ELSE <<s[i]>> \o DedupSubFrom(s, i + 1)

DedupSub(s) == DedupSubFrom(s, 1)

(***************************************************************************)
(* Python dict as an insertion-ordered association list                    *)
(***************************************************************************)
DictKeys(d) == [i \in 1..Len(d) |-> d[i].k]

DictHas(d, key) == \E i \in 1..Len(d) : d[i].k = key

DictGet(d, key) == d[CHOOSE i \in 1..Len(d) : d[i].k = key].v

\* d.setdefault(key, val): the first value of a key stays
DictSet_KeepFirst(d, key, val) ==
    IF DictHas(d, key) THEN d ELSE Append(d, [k |-> key, v |-> val])

\* d[key] = val: overwrite in place, or append a new key
DictSet(d, key, val) ==
    IF DictHas(d, key)
    THEN [i \in 1..Len(d) |-> IF d[i].k = key THEN [k |-> key, v |-> val] ELSE d[i]]
    ELSE Append(d, [k |-> key, v |-> val])

\* sorted(keys, key=len, reverse=True): stable, longest first
RECURSIVE SortByLenFrom(_, _)
SortByLenFrom(keys, n) ==
    IF n < 0 THEN <<>>
    ELSE SelectSeq(keys, LAMBDA x : Len(x) = n) \o SortByLenFrom(keys, n - 1)

SortedByLenDesc(keys) ==
    LET lens == {Len(keys[i]) : i \in 1..Len(keys)}
        top  == IF lens = {} THEN 0 ELSE CHOOSE n \in lens : \A m \in lens : m <= n
    IN  SortByLenFrom(keys, top)

(***************************************************************************)
(* JSON values: objects are functions from key strings, scalars are tagged *)
(***************************************************************************)
None == [type |-> "NoneType"]

Num(n) == [type |-> "int", int |-> n]

Str(s) == [type |-> "str", str |-> s]

EmptyDict == <<>>

\* d.get(key, default)
Get(d, key, default) == IF key \in DOMAIN d THEN d[key] ELSE default

\* d[key] = val on a copy of d
Put(d, key, val) == [x \in DOMAIN d \cup {key} |-> IF x = key THEN val ELSE d[x]]

\* str(v)
str(v) ==
    CASE v.type = "str" -> v.str
      [] v.type = "NoneType" -> <<"N", "o", "n", "e">>
      [] v.type = "int" -> <<"5">>   \* 5 is the only number used as content

\* (v or default) for v a mapping or a list
OrElse(v, default) == IF DOMAIN v = {} THEN default ELSE v

(***************************************************************************)
(* Mapping builder                                                         *)
(***************************************************************************)
\* default of build_alias_map's min_conf
DefaultAliasMinConf == 60

\* default of build_error_map's min_conf
DefaultErrorMinConf == 80

\* the inner loop: for alias in g.get("aliases", []), from position i
RECURSIVE AliasLoop(_, _, _, _)
AliasLoop(d, aliases, i, term) ==
    IF i > Len(aliases) THEN d
    ELSE LET alias == strip(aliases[i])
         IN  AliasLoop(IF alias # <<>> THEN DictSet(d, _norm(alias), term) ELSE d,
                       aliases, i + 1, term)

\* the outer loop: for g in context_inferred.get("glossary", []), from position i
RECURSIVE GlossaryLoop(_, _, _, _)
GlossaryLoop(d, glossary, i, min) ==
    IF i > Len(glossary) THEN d
    ELSE LET g    == glossary[i]
             conf == g.confidence
             term == strip(g.term)
         IN  IF term = <<>> \/ conf < min
             THEN GlossaryLoop(d, glossary, i + 1, min)
             ELSE GlossaryLoop(
                      AliasLoop(DictSet(d, _norm(term), term), g.aliases, 1, term),
                      glossary, i + 1, min)

\* build_alias_map(context_inferred, min_conf)
build_alias_map(context_inferred, min) ==
    GlossaryLoop(<<>>, OrElse(Get(context_inferred, "glossary", <<>>), <<>>), 1, min)

\* the loop: for err in context_inferred.get("language_errors", []), from i
RECURSIVE ErrorLoop(_, _, _, _)
ErrorLoop(d, errors, i, min) ==
    IF i > Len(errors) THEN d
    ELSE LET err       == errors[i]
             conf      == err.confidence
             incorrect == strip(err.incorrect_text)
             correct   == strip(err.correct_form)
         IN  IF incorrect = <<>> \/ correct = <<>> \/ conf < min
             THEN ErrorLoop(d, errors, i + 1, min)
             ELSE ErrorLoop(DictSet(d, _norm(incorrect), correct), errors, i + 1, min)

\* build_error_map(context_inferred, min_conf)
build_error_map(context_inferred, min) ==
    ErrorLoop(<<>>, OrElse(Get(context_inferred, "language_errors", <<>>), <<>>), 1, min)

(***************************************************************************)
(* apply_fixes                                                             *)
(***************************************************************************)
\* the dataclass Operation; detail is the message with its two format fields
Operation(op, msg, a, b, before, after, confidence, source) ==
    [op |-> op, detail |-> [msg |-> msg, a |-> a, b |-> b],
     before |-> before, after |-> after,
     confidence |-> confidence, source |-> source]

\* One iteration of the replacement loops of Fix 1 / Fix 2 on state
\* st = [text, ops] for the key and its replacement.
ReplaceStep(st, key, repl, op, confidence, source) ==
    IF key = <<>> THEN st
    ELSE IF PatternSearch(key, st.text)
         THEN LET before == st.text
                  result == PatternSub(key, repl, before)
              IN  IF result # before
                  THEN [text |-> result,
                        ops  |-> Append(st.ops,
                                   Operation(op, "'{key}' -> '{value}'", key, repl,
                                             before, result, confidence, source))]
                  ELSE [text |-> result, ops |-> st.ops]
         ELSE st

\* the for loop over sorted(d.keys(), key=len, reverse=True), from position i
RECURSIVE ReplaceLoop(_, _, _, _, _, _, _)
ReplaceLoop(st, keys, i, d, op, confidence, source) ==
    IF i > Len(keys) THEN st
    ELSE ReplaceLoop(
             ReplaceStep(st, keys[i], DictGet(d, keys[i]), op, confidence, source),
             keys, i + 1, d, op, confidence, source)

\* Fix 1: glossary normalization
GlossaryPass(st, d) ==
    ReplaceLoop(st, SortedByLenDesc(DictKeys(d)), 1, d,
                "glossary_normalization", 90, "glossary")

\* Fix 2: language errors
LanguageErrorPass(st, d) ==
    ReplaceLoop(st, SortedByLenDesc(DictKeys(d)), 1, d,
                "language_error_fix", 85, "llm_error")

\* Fix 3: remove immediate word repetitions
DeduplicationPass(st) ==
    LET before == st.text
        result == DedupSub(before)
    IN  IF result # before
        THEN [text |-> result,
              ops  |-> Append(st.ops,
                         Operation("deduplication", "Removed immediate repetition",
                                   <<>>, <<>>, before, result, 90, "rule"))]
        ELSE [text |-> result, ops |-> st.ops]

\* Fix 4 with the before snapshot taken after result.strip()
PunctuationPass_SnapshotAfterStrip(st) ==
    LET before   == strip(st.text)
        capped   == IF before # <<>> /\ isalpha(before[1])
                    THEN <<upper(before[1])>> \o Tail(before)
                    ELSE before
        result   == IF capped # <<>> /\ capped[Len(capped)] \notin END_PUNCT
                    THEN capped \o <<".">>
                    ELSE capped
    IN  IF result # before
        THEN [text |-> result,
              ops  |-> Append(st.ops,
                         Operation("punctuation", "Capitalization + ending punctuation",
                                   <<>>, <<>>, before, result, 80, "rule"))]
        ELSE [text |-> result, ops |-> st.ops]

\* Fix 4: light punctuation
PunctuationPass(st) ==
    LET before   == st.text
        stripped == strip(before)
        capped   == IF stripped # <<>> /\ isalpha(stripped[1])
                    THEN <<upper(stripped[1])>> \o Tail(stripped)
                    ELSE stripped
        result   == IF capped # <<>> /\ capped[Len(capped)] \notin END_PUNCT
                    THEN capped \o <<".">>
                    ELSE capped
    IN  IF result # before
        THEN [text |-> result,
              ops  |-> Append(st.ops,
                         Operation("punctuation", "Capitalization + ending punctuation",
                                   <<>>, <<>>, before, result, 80, "rule"))]
        ELSE [text |-> result, ops |-> st.ops]

\* apply_fixes with Fix 2 run before Fix 1
apply_fixes_ErrorsFirst(t, am, em) ==
    PunctuationPass(
        DeduplicationPass(
            GlossaryPass(
                LanguageErrorPass([text |-> t, ops |-> <<>>], em), am)))

\* apply_fixes(text, alias_map, error_map) -> (result, operations)
apply_fixes(t, am, em) ==
    PunctuationPass(
        DeduplicationPass(
            LanguageErrorPass(
                GlossaryPass([text |-> t, ops |-> <<>>], am), em)))

(***************************************************************************)
(* edit_transcript                                                         *)
(***************************************************************************)
\* edit_transcript leaving build_error_map its default min_conf
EditErrorMinConf_Default == DefaultErrorMinConf

\* min_conf that edit_transcript passes to build_error_map
EditErrorMinConf == 70

\* original_content = str(m.get("content", ""))
OriginalContent(m) == str(Get(m, "content", Str(<<>>)))

\* a message rebuilt from the four known fields only
EditedMessage_KnownFields(m, fixed_content) ==
    [k \in (DOMAIN m \cap {"start_time", "end_time", "speaker"}) \cup {"content"} |->
        IF k = "content" THEN Str(fixed_content) ELSE m[k]]

\* {**m, "content": fixed_content}
EditedMessage(m, fixed_content) == Put(m, "content", Str(fixed_content))

\* the segment report with changed taken from the operation list
SegmentReport_ChangedFromOps(i, m, fixed) ==
    [index      |-> i,
     start_time |-> Get(m, "start_time", None),
     end_time   |-> Get(m, "end_time", None),
     speaker    |-> Get(m, "speaker", None),
     changed    |-> fixed.ops # <<>>,
     operations |-> fixed.ops]

\* the dict appended to segment_reports for message m at enumerate index i
SegmentReport(i, m, fixed) ==
    [index      |-> i,
     start_time |-> Get(m, "start_time", None),
     end_time   |-> Get(m, "end_time", None),
     speaker    |-> Get(m, "speaker", None),
     changed    |-> OriginalContent(m) # fixed.text,
     operations |-> fixed.ops]

Policy ==
    [glossary_normalization    |-> TRUE,
     language_error_correction |-> TRUE,
     deduplication             |-> TRUE,
     light_punctuation         |-> TRUE,
     timestamps_preserved      |-> TRUE,
     speaker_labels_preserved  |-> TRUE]

\* the value stored under transformation_report.editor
EditorReport(messages, am, em) ==
    LET fixed(i) == apply_fixes(OriginalContent(messages[i]), am, em)
        segment_reports ==
            [i \in 1..Len(messages) |-> SegmentReport(i - 1, messages[i], fixed(i))]
    IN  [policy            |-> Policy,
         total_segments    |-> Len(messages),
         segments_modified |->
             Cardinality({i \in 1..Len(messages) : segment_reports[i].changed}),
         segment_reports   |-> segment_reports]

\* edited_messages after the loop
EditedMessages(messages, am, em) ==
    [i \in 1..Len(messages) |->
        EditedMessage(messages[i],
                      apply_fixes(OriginalContent(messages[i]), am, em).text)]

\* ctx as edit_transcript reads it
ContextOf(o) == OrElse(Get(o, "context_inferred", EmptyDict), EmptyDict)

\* out_obj["transformation_report"] = {"editor": ...}: a fresh dict
ReportDict_Fresh(o, am, em) ==
    [editor |-> EditorReport(Get(o, "messages", <<>>), am, em)]

\* the dict out_obj["transformation_report"] after the editor key is set
ReportDict(o, am, em) ==
    Put(Get(o, "transformation_report", EmptyDict), "editor",
        EditorReport(Get(o, "messages", <<>>), am, em))

\* the object edit_transcript(obj) returns
edit_transcript(o) ==
    LET am == build_alias_map(ContextOf(o), DefaultAliasMinConf)
        em == build_error_map(ContextOf(o), EditErrorMinConf)
        out_obj == Put(o, "messages", EditedMessages(Get(o, "messages", <<>>), am, em))
    IN  Put(out_obj, "transformation_report", ReportDict(o, am, em))

\* the argument object after the call: out_obj is a shallow copy, so a
\* transformation_report dict the argument carries is the one that receives
\* the editor key
ArgumentAfterEdit(o) ==
    IF "transformation_report" \in DOMAIN o
    THEN LET am == build_alias_map(ContextOf(o), DefaultAliasMinConf)
             em == build_error_map(ContextOf(o), EditErrorMinConf)
         IN  Put(o, "transformation_report", ReportDict(o, am, em))
    ELSE o

(***************************************************************************)
(* Bounded inputs                                                          *)
(***************************************************************************)
MaxTextLen == 3

MaxAliasKeys == 2

MaxErrorKeys == 1

TextAlphabet == {"a", "b", " ", "."}

\* all strings over the alphabet cs of length at most n
StringsUpTo(cs, n) == UNION {[1..m -> cs] : m \in 0..n}

\* further texts: upper case, a tab, a three-fold repetition, a two-word key
\* between words
ExtraTexts ==
    {<<"A">>, <<"A", "a">>, <<"a", "A">>, <<"A", " ", "a">>, <<"a", "\t", "A">>,
     <<"A", " ", "B">>, <<"A", ".">>, <<"a", "_", "a">>, <<"a", " ", "a", "5">>,
     <<"a", " ", "a", " ", "a">>, <<"b", " ", "a", " ", "b", " ", "a">>}

Texts == StringsUpTo(TextAlphabet, MaxTextLen) \cup ExtraTexts

AliasKeys == {<<"a">>, <<"a", " ", "b">>}

AliasTerms == {<<"A">>, <<"b">>, <<"A", " ", "b">>}

ErrorKeys == {<<"a">>, <<"b">>}

ErrorForms == {<<"a", " ", "a">>}

\* all dicts with at most n keys from ks and values from vs
DictsUpTo(ks, vs, n) ==
    {d \in UNION {[1..m -> [k : ks, v : vs]] : m \in 0..n} :
        \A i, j \in 1..Len(d) : i # j => d[i].k # d[j].k}

AliasMaps == DictsUpTo(AliasKeys, AliasTerms, MaxAliasKeys)

ErrorMaps == DictsUpTo(ErrorKeys, ErrorForms, MaxErrorKeys)

NoResult == [text |-> <<>>, ops |-> <<>>]

(***************************************************************************)
(* apply_fixes called on a text, then again on its own output              *)
(***************************************************************************)
InitFix ==
    /\ pc = "start"
    /\ text \in Texts
    /\ alias_map \in AliasMaps
    /\ error_map \in ErrorMaps
    /\ r1 = NoResult
    /\ r2 = NoResult
    /\ ctx = <<>>
    /\ min_conf = 0
    /\ built = <<>>
    /\ obj = <<>>
    /\ out = <<>>
    /\ out2 = <<>>

\* (t1, ops1) = apply_fixes(t, alias_map, error_map)
CallApplyFixes ==
    /\ pc = "start"
    /\ r1' = apply_fixes(text, alias_map, error_map)
    /\ pc' = "once"
    /\ UNCHANGED <<text, alias_map, error_map, r2, ctx, min_conf, built, obj, out, out2>>

\* (t2, ops2) = apply_fixes(t1, alias_map, error_map)
CallApplyFixesAgain ==
    /\ pc = "once"
    /\ r2' = apply_fixes(r1.text, alias_map, error_map)
    /\ pc' = "twice"
    /\ UNCHANGED <<text, alias_map, error_map, r1, ctx, min_conf, built, obj, out, out2>>

NextFix == CallApplyFixes \/ CallApplyFixesAgain

SpecFix == InitFix /\ [][NextFix]_vars

(***************************************************************************)
(* Properties of apply_fixes                                               *)
(***************************************************************************)
Called == pc \in {"once", "twice"}

OpRank(op) ==
    CASE op = "glossary_normalization" -> 1
      [] op = "language_error_fix" -> 2
      [] op = "deduplication" -> 3
      [] op = "punctuation" -> 4

CountOps(ops, op) == Cardinality({i \in 1..Len(ops) : ops[i].op = op})

\* key occurs in s at index i, compared case-insensitively
OccursAt(key, s, i) ==
    /\ i >= 1
    /\ i + Len(key) - 1 <= Len(s)
    /\ \A j \in 1..Len(key) : lower(s[i + j - 1]) = lower(key[j])

\* key occurs in s at index i as a whole token sequence: no word character
\* touches it on either side
WholeWordAt(key, s, i) ==
    /\ OccursAt(key, s, i)
    /\ (i = 1 \/ ~IsWordChar(s[i - 1]))
    /\ (i + Len(key) - 1 = Len(s) \/ ~IsWordChar(s[i + Len(key)]))

WholeWordIn(key, s) == \E i \in 1..Len(s) : WholeWordAt(key, s, i)

\* key occurs in s, but only as a strict part of longer words
OnlyInsideWords(key, s) ==
    /\ \E i \in 1..Len(s) : OccursAt(key, s, i)
    /\ ~WholeWordIn(key, s)

Contains(s, sub) == \E i \in 1..(Len(s) + 1) : OccursAt(sub, s, i) /\ Slice(s, i, i + Len(sub) - 1) = sub

\* C1: apply_fixes is idempotent: applied to its own output with the same
\* maps it returns the same text and no operation.
C1_Idempotent == pc = "twice" => (r2.text = r1.text /\ r2.ops = <<>>)

\* C3: the operation list is ordered glossary, language error, deduplication,
\* punctuation, with at most one deduplication and one punctuation record;
\* a text that is a key of both maps is first replaced by the glossary term,
\* and the language-error pass starts from the text the glossary pass left.
C3_PassOrder ==
    Called =>
        /\ \A i, j \in 1..Len(r1.ops) :
              i < j => OpRank(r1.ops[i].op) <= OpRank(r1.ops[j].op)
        /\ CountOps(r1.ops, "deduplication") <= 1
        /\ CountOps(r1.ops, "punctuation") <= 1
        /\ \A k \in 1..Len(alias_map) :
              LET key == alias_map[k].k
                  term == alias_map[k].v
              IN  (DictHas(error_map, key) /\ LowerStr(text) = key /\ term # text)
                      => /\ Len(r1.ops) >= 1
                         /\ r1.ops[1].op = "glossary_normalization"
                         /\ r1.ops[1].before = text
                         /\ r1.ops[1].after = term
        /\ \A i \in 1..Len(r1.ops) :
              r1.ops[i].op = "language_error_fix"
                  => r1.ops[i].before = IF i = 1 THEN text ELSE r1.ops[i - 1].after

\* a key of both maps met in the text, and all four passes recorded an operation
C3_Witness ==
    /\ Called
    /\ \E k \in 1..Len(alias_map) :
          DictHas(error_map, alias_map[k].k) /\ LowerStr(text) = alias_map[k].k
    /\ Len(r1.ops) = 4
    /\ r1.ops[1].op = "glossary_normalization"
    /\ r1.ops[2].op = "language_error_fix"

\* C5: when a shorter alias key occurs as a whole word inside a longer alias
\* key with a different canonical term, a text holding the longer key comes
\* out of the glossary pass holding the longer key's canonical term.
C5_LongestMatch ==
    Called =>
        \A s, l \in 1..Len(alias_map) :
            LET short == alias_map[s].k
                long  == alias_map[l].k
            IN  (/\ Len(short) < Len(long)
                 /\ alias_map[s].v # alias_map[l].v
                 /\ WholeWordIn(short, long)
                 /\ WholeWordIn(long, text))
                    => Contains(GlossaryPass([text |-> text, ops |-> <<>>], alias_map).text,
                                alias_map[l].v)

IsReplaceOp(o) == o.op \in {"glossary_normalization", "language_error_fix"}

\* C6: a key is replaced only where it occurs as a whole token sequence: every
\* glossary or language-error record names a key that occurs as a whole word
\* in its before text, and a text in which no key occurs as a whole word
\* yields no such record.
C6_WordBoundary ==
    Called =>
        /\ \A i \in 1..Len(r1.ops) :
              IsReplaceOp(r1.ops[i]) => WholeWordIn(r1.ops[i].detail.a, r1.ops[i].before)
        /\ ((/\ \A k \in 1..Len(alias_map) : ~WholeWordIn(alias_map[k].k, text)
             /\ \A k \in 1..Len(error_map) : ~WholeWordIn(error_map[k].k, text))
                => \A i \in 1..Len(r1.ops) : ~IsReplaceOp(r1.ops[i]))

\* a key occurs in the text only as a strict part of a longer word
C6_Witness ==
    /\ Called
    /\ \E k \in 1..Len(alias_map) : OnlyInsideWords(alias_map[k].k, text)
    /\ \A k \in 1..Len(alias_map) : ~WholeWordIn(alias_map[k].k, text)
    /\ \A k \in 1..Len(error_map) : ~WholeWordIn(error_map[k].k, text)
    /\ \A i \in 1..Len(r1.ops) : ~IsReplaceOp(r1.ops[i])

\* C10: the records chain: the first before is the input, each after is the
\* next before, the last after is the returned text, every record changes
\* the text; with no record the returned text is the input.
C10_SnapshotChain ==
    Called =>
        /\ Len(r1.ops) = 0 => r1.text = text
        /\ Len(r1.ops) > 0 =>
              /\ r1.ops[1].before = text
              /\ r1.ops[Len(r1.ops)].after = r1.text
        /\ \A i \in 1..Len(r1.ops) : r1.ops[i].before # r1.ops[i].after
        /\ \A i \in 1..(Len(r1.ops) - 1) : r1.ops[i].after = r1.ops[i + 1].before

\* a chain of at least three records ending in a punctuation record
C10_Witness ==
    /\ Called
    /\ Len(r1.ops) >= 3
    /\ r1.ops[Len(r1.ops)].op = "punctuation"

(***************************************************************************)
(* The mapping builders called on a context                                *)
(***************************************************************************)
MaxGlossary == 2

MaxErrors == 2

GlossaryTerms == {<<"A">>, <<"a">>, <<"B">>, <<" ">>}

GlossaryAliases == {<<>>, << <<"a">> >>, << <<"b", "\t">>, <<"A", "\t", " ", "b">> >>}

GlossaryEntries ==
    [term : GlossaryTerms, aliases : GlossaryAliases, confidence : {60, 70}]

ErrorEntries ==
    [incorrect_text : {<<"a">>, <<"A", " ">>, <<>>},
     correct_form : {<<"b">>, <<"B">>, <<" ">>},
     confidence : {60, 70}]

\* all lists over the set es of length at most n
ListsUpTo(es, n) == UNION {[1..m -> es] : m \in 0..n}

BuildContexts ==
    {[glossary |-> g, language_errors |-> <<>>] : g \in ListsUpTo(GlossaryEntries, MaxGlossary)}
        \cup
    {[glossary |-> <<>>, language_errors |-> e] : e \in ListsUpTo(ErrorEntries, MaxErrors)}

InitBuild ==
    /\ pc = "start"
    /\ ctx \in BuildContexts
    /\ min_conf \in {DefaultAliasMinConf, 70}
    /\ built = <<>>
    /\ text = <<>>
    /\ alias_map = <<>>
    /\ error_map = <<>>
    /\ r1 = NoResult
    /\ r2 = NoResult
    /\ obj = <<>>
    /\ out = <<>>
    /\ out2 = <<>>

\* built = build_alias_map(ctx, min_conf)
CallBuildAliasMap ==
    /\ pc = "start"
    /\ built' = build_alias_map(ctx, min_conf)
    /\ pc' = "alias_map"
    /\ UNCHANGED <<text, alias_map, error_map, r1, r2, ctx, min_conf, obj, out, out2>>

\* built = build_error_map(ctx, min_conf)
CallBuildErrorMap ==
    /\ pc = "start"
    /\ built' = build_error_map(ctx, min_conf)
    /\ pc' = "error_map"
    /\ UNCHANGED <<text, alias_map, error_map, r1, r2, ctx, min_conf, obj, out, out2>>

NextBuild == CallBuildAliasMap \/ CallBuildErrorMap

SpecBuild == InitBuild /\ [][NextBuild]_vars

(***************************************************************************)
(* Properties of build_alias_map                                           *)
(***************************************************************************)
\* glossary entry g is accepted under threshold min
Accepted(g, min) == strip(g.term) # <<>> /\ g.confidence >= min

\* accepted entry g assigns key: as its normalized term or a non-empty alias
Writes(g, key) ==
    \/ _norm(strip(g.term)) = key
    \/ \E a \in 1..Len(g.aliases) :
          strip(g.aliases[a]) # <<>> /\ _norm(strip(g.aliases[a])) = key

\* C7: every canonical term that occurs as a value of the alias map is mapped
\* from its own normalized form, also under key collisions.
C7_SelfMapping ==
    pc = "alias_map" =>
        \A i \in 1..Len(built) :
            /\ DictHas(built, _norm(built[i].v))
            /\ DictGet(built, _norm(built[i].v)) = built[i].v

\* C7 amended: the normalized form of every accepted entry's term is a key,
\* mapped to the term of the last accepted entry that assigns that key; so it
\* is mapped to the entry's own term unless a later accepted entry with a
\* different term assigns it.
C7_LastWriteWins ==
    pc = "alias_map" =>
        \A i \in 1..Len(ctx.glossary) :
            LET g   == ctx.glossary[i]
                key == _norm(strip(g.term))
                writers == {j \in 1..Len(ctx.glossary) :
                               Accepted(ctx.glossary[j], min_conf)
                                   /\ Writes(ctx.glossary[j], key)}
                last == CHOOSE j \in writers : \A n \in writers : n <= j
            IN  Accepted(g, min_conf) =>
                    /\ DictHas(built, key)
                    /\ DictGet(built, key) = strip(ctx.glossary[last].term)
                    /\ (\A j \in writers : j > i => strip(ctx.glossary[j].term) = strip(g.term))
                           => DictGet(built, key) = strip(g.term)

\* two accepted entries with different terms: the later one has the earlier
\* term's normalized form as an alias and takes the key over
C7_Witness ==
    /\ pc = "alias_map"
    /\ Len(ctx.glossary) = 2
    /\ Accepted(ctx.glossary[1], min_conf)
    /\ Accepted(ctx.glossary[2], min_conf)
    /\ strip(ctx.glossary[1].term) # strip(ctx.glossary[2].term)
    /\ Writes(ctx.glossary[2], _norm(strip(ctx.glossary[1].term)))
    /\ DictGet(built, _norm(strip(ctx.glossary[1].term))) = strip(ctx.glossary[2].term)
    /\ \E i \in 1..Len(built) : built[i].v = strip(ctx.glossary[1].term)

(***************************************************************************)
(* edit_transcript called on a transcript                                  *)
(***************************************************************************)
MaxSegments == 2

\* content values: a string, null, a number; NoContent stands for a segment
\* without the key
NoContent == [type |-> "absent"]

Contents ==
    {Str(<<"a", " ", "a">>), Str(<<"A", ".">>), None, Num(5), NoContent}

\* the other fields of a segment: timing, speaker and a passthrough field,
\* or a segment that lacks start_time and speaker
SegmentFrames ==
    {[start_time |-> Num(0), end_time |-> Num(1), speaker |-> Str(<<"A">>),
      lang |-> Str(<<"e", "n">>)],
     [end_time |-> Num(2)]}

Segments ==
    {IF c = NoContent THEN f ELSE Put(f, "content", c) : c \in Contents, f \in SegmentFrames}

Glossary59 == [term |-> <<"b">>, aliases |-> << <<"a">> >>, confidence |-> 59]

Glossary60 == [term |-> <<"B">>, aliases |-> << <<"A", " ">> >>, confidence |-> 60]

Error69 == [incorrect_text |-> <<"a">>, correct_form |-> <<"b">>, confidence |-> 69]

Error70 == [incorrect_text |-> <<"5">>, correct_form |-> <<"a">>, confidence |-> 70]

\* a language error whose correction writes back what Glossary60 replaces
Error80 == [incorrect_text |-> <<"b">>, correct_form |-> <<"A">>, confidence |-> 80]

EditGlossaries == {<<>>, <<Glossary59>>, <<Glossary60, Glossary59>>}

EditErrors == {<<>>, <<Error69>>, <<Error70, Error69>>, <<Error80>>}

\* context_inferred: a mapping with both lists, an empty mapping, or no key
EditContexts ==
    {[glossary |-> g, language_errors |-> e] : g \in EditGlossaries, e \in EditErrors}
        \cup {EmptyDict}

\* the transcript without messages and context: with or without a title and
\* a transformation_report that other stages have written to
EditShells ==
    {[title |-> Str(<<"a">>)],
     [title |-> Str(<<"a">>), transformation_report |-> EmptyDict],
     [title |-> Str(<<"a">>), transformation_report |-> [qa |-> Str(<<"o">>)]],
     [transformation_report |-> [qa |-> Str(<<"o">>), editor |-> Str(<<"o">>)]]}

QaShell == [title |-> Str(<<"a">>), transformation_report |-> [qa |-> Str(<<"o">>)]]

\* every message list and context in the shell with a title and a qa report,
\* every shell with the message lists of at most one segment, and
\* transcripts without a context_inferred key
Transcripts ==
    {Put(Put(QaShell, "messages", ms), "context_inferred", c) :
        ms \in ListsUpTo(Segments, MaxSegments), c \in EditContexts}
        \cup {Put(Put(sh, "messages", ms), "context_inferred", c) :
                 sh \in EditShells, ms \in ListsUpTo(Segments, 1), c \in EditContexts}
        \cup {Put(sh, "messages", ms) :
                 sh \in EditShells, ms \in ListsUpTo(Segments, 1)}

InitEdit ==
    /\ pc = "start"
    /\ obj \in Transcripts
    /\ out = EmptyDict
    /\ out2 = EmptyDict
    /\ alias_map = <<>>
    /\ error_map = <<>>
    /\ text = <<>>
    /\ r1 = NoResult
    /\ r2 = NoResult
    /\ ctx = <<>>
    /\ min_conf = 0
    /\ built = <<>>

\* out = edit_transcript(obj); alias_map and error_map record the maps the
\* call built
CallEditTranscript ==
    /\ pc = "start"
    /\ alias_map' = build_alias_map(ContextOf(obj), DefaultAliasMinConf)
    /\ error_map' = build_error_map(ContextOf(obj), EditErrorMinConf)
    /\ out' = edit_transcript(obj)
    /\ obj' = ArgumentAfterEdit(obj)
    /\ pc' = "edited"
    /\ UNCHANGED <<text, r1, r2, ctx, min_conf, built, out2>>

\* out2 = edit_transcript(obj) on the same argument object.  The first
\* result shares the transformation_report dict with an argument that carried
\* one, so it sees the editor key this call sets.
CallEditTranscriptAgain ==
    /\ pc = "edited"
    /\ out2' = edit_transcript(obj)
    /\ obj' = ArgumentAfterEdit(obj)
    /\ out' = IF "transformation_report" \in DOMAIN obj
              THEN Put(out, "transformation_report",
                       edit_transcript(obj).transformation_report)
              ELSE out
    /\ pc' = "edited_twice"
    /\ UNCHANGED <<text, alias_map, error_map, r1, r2, ctx, min_conf, built>>

NextEdit == CallEditTranscript \/ CallEditTranscriptAgain

SpecEdit == InitEdit /\ [][NextEdit]_vars

(***************************************************************************)
(* Properties of edit_transcript                                           *)
(***************************************************************************)
Edited == pc \in {"edited", "edited_twice"}

Reports(o) == o.transformation_report.editor.segment_reports

\* C2: the output messages have the input's length and order; every field of
\* a segment other than content is unchanged and no field is added but
\* content; report i carries index i and the segment's start_time, end_time
\* and speaker.
C2_SegmentFrame ==
    [][CallEditTranscript =>
          LET ms == Get(obj, "messages", <<>>)
              os == out'.messages
              rs == Reports(out')
          IN  /\ Len(os) = Len(ms)
              /\ Len(rs) = Len(ms)
              /\ \A i \in 1..Len(ms) :
                    /\ DOMAIN os[i] = DOMAIN ms[i] \cup {"content"}
                    /\ \A k \in DOMAIN ms[i] \ {"content"} : os[i][k] = ms[i][k]
                    /\ rs[i].index = i - 1
                    /\ rs[i].start_time = Get(ms[i], "start_time", None)
                    /\ rs[i].end_time = Get(ms[i], "end_time", None)
                    /\ rs[i].speaker = Get(ms[i], "speaker", None)]_vars

\* two segments edited, the first rewritten and carrying a passthrough field
C2_Witness ==
    /\ Edited
    /\ Len(out.messages) = 2
    /\ "lang" \in DOMAIN out.messages[1]
    /\ "speaker" \notin DOMAIN out.messages[2]
    /\ "content" \in DOMAIN obj.messages[1]
    /\ obj.messages[1].content.type = "str"
    /\ Reports(out)[1].changed
    /\ out.messages[1] # out.messages[2]

\* C4: the maps and the edited transcript are those of the context without its
\* glossary entries below 0.6 and its language errors below 0.70; entries at
\* the threshold stay; no language error below 0.70 is applied.
C4_ConfidenceGating ==
    Edited =>
        LET c    == ContextOf(obj)
            kept == [glossary |->
                         SelectSeq(Get(c, "glossary", <<>>), LAMBDA g : g.confidence >= 60),
                     language_errors |->
                         SelectSeq(Get(c, "language_errors", <<>>),
                                   LAMBDA e : e.confidence >= 70)]
            same == edit_transcript(Put(obj, "context_inferred", kept))
        IN  /\ alias_map = build_alias_map(kept, 0)
            /\ error_map = build_error_map(kept, 0)
            /\ out.messages = same.messages
            /\ Reports(out) = Reports(same)
            /\ \A i \in 1..Len(kept.glossary) :
                  LET g == kept.glossary[i]
                  IN  (g.confidence = 60 /\ strip(g.term) # <<>>)
                          => DictHas(alias_map, _norm(g.term))
            /\ \A i \in 1..Len(kept.language_errors) :
                  LET e == kept.language_errors[i]
                  IN  (e.confidence = 70 /\ strip(e.incorrect_text) # <<>>
                           /\ strip(e.correct_form) # <<>>)
                          => DictHas(error_map, _norm(e.incorrect_text))
            /\ \A i \in 1..Len(Get(c, "language_errors", <<>>)) :
                  LET e == c.language_errors[i]
                  IN  (e.confidence < 70
                           /\ \A j \in 1..Len(kept.language_errors) :
                                 _norm(kept.language_errors[j].incorrect_text)
                                     # _norm(e.incorrect_text))
                          => \A m \in 1..Len(Reports(out)) :
                                 \A n \in 1..Len(Reports(out)[m].operations) :
                                     LET o == Reports(out)[m].operations[n]
                                     IN  o.op = "language_error_fix"
                                             => o.detail.a # _norm(e.incorrect_text)

\* entries below and at both thresholds, and a segment the glossary rewrote
C4_Witness ==
    /\ Edited
    /\ Get(ContextOf(obj), "glossary", <<>>) = <<Glossary60, Glossary59>>
    /\ Get(ContextOf(obj), "language_errors", <<>>) = <<Error70, Error69>>
    /\ Len(alias_map) = 2
    /\ Len(error_map) = 1
    /\ \E i \in 1..Len(Reports(out)) :
          /\ Reports(out)[i].operations # <<>>
          /\ Reports(out)[i].operations[1].op = "glossary_normalization"

\* C8: a segment whose content is missing or not a string is edited as the
\* empty string: its report has no operation and changed = false.
C8_NoFatalSegment ==
    Edited =>
        \A i \in 1..Len(obj.messages) :
            ("content" \notin DOMAIN obj.messages[i] \/ obj.messages[i].content.type # "str")
                => /\ Reports(out)[i].operations = <<>>
                   /\ Reports(out)[i].changed = FALSE
                   /\ out.messages[i].content = Str(<<>>)

\* C9: every top-level key other than messages and transformation_report, and
\* every key under transformation_report other than editor, keeps its value.
C9_ReportAttached ==
    [][CallEditTranscript =>
          /\ \A k \in DOMAIN obj \ {"messages", "transformation_report"} :
                k \in DOMAIN out' /\ out'[k] = obj[k]
          /\ "editor" \in DOMAIN out'.transformation_report
          /\ "transformation_report" \in DOMAIN obj =>
                \A k \in DOMAIN obj.transformation_report \ {"editor"} :
                    /\ k \in DOMAIN out'.transformation_report
                    /\ out'.transformation_report[k] = obj.transformation_report[k]]_vars

\* a transcript with a title, a context and an earlier report entry was edited
C9_Witness ==
    /\ Edited
    /\ "title" \in DOMAIN out
    /\ "context_inferred" \in DOMAIN out
    /\ "qa" \in DOMAIN out.transformation_report
    /\ "editor" \in DOMAIN out.transformation_report
    /\ Len(out.messages) > 0

\* C11: edit_transcript leaves its argument unchanged in every part, the
\* transformation_report mapping it carries included, and a second call on
\* the same argument returns an output equal to the first.
C11_SideEffectFree ==
    [][/\ CallEditTranscript => obj' = obj
       /\ CallEditTranscriptAgain => (obj' = obj /\ out2' = out')]_vars

EditorOf(o) == o.transformation_report.editor

\* C12: total_segments is the number of input messages and of segment
\* reports, segments_modified counts the reports with changed = true, and a
\* segment is changed exactly when its operation list is non-empty, that is
\* exactly when its output content differs from its input content.
C12_ChangedIffOperations ==
    Edited =>
        /\ EditorOf(out).total_segments = Len(obj.messages)
        /\ Len(Reports(out)) = Len(obj.messages)
        /\ EditorOf(out).segments_modified
               = Cardinality({i \in 1..Len(Reports(out)) : Reports(out)[i].changed})
        /\ \A i \in 1..Len(Reports(out)) :
              /\ Reports(out)[i].changed <=> (Reports(out)[i].operations # <<>>)
              /\ Reports(out)[i].changed
                     <=> (out.messages[i].content.str # OriginalContent(obj.messages[i]))

\* C12 amended: the counts are as stated; a segment is changed exactly when
\* its output content differs from the text of its input content, and a
\* changed segment has a non-empty operation list.
C12_ReportConsistent ==
    Edited =>
        /\ EditorOf(out).total_segments = Len(obj.messages)
        /\ Len(Reports(out)) = Len(obj.messages)
        /\ EditorOf(out).segments_modified
               = Cardinality({i \in 1..Len(Reports(out)) : Reports(out)[i].changed})
        /\ \A i \in 1..Len(Reports(out)) :
              /\ Reports(out)[i].changed => (Reports(out)[i].operations # <<>>)
              /\ Reports(out)[i].changed
                     <=> (out.messages[i].content.str # OriginalContent(obj.messages[i]))

\* two segments: one rewritten, one whose operations restore its input text
C12_Witness ==
    /\ Edited
    /\ Len(Reports(out)) = 2
    /\ EditorOf(out).segments_modified = 1
    /\ \E i \in 1..2 :
          /\ ~Reports(out)[i].changed
          /\ Len(Reports(out)[i].operations) = 2

====
